---- MODULE Spec2Model ----
(***************************************************************************)
(* Model of the GitHubAnalyzer component                                   *)
(* (src/src/components/GitHubAnalyzer.tsx, lines 1-518): the React state   *)
(* of the component, the two asynchronous operations fetchRepoData and     *)
(* generateLesson, the walkthrough controls, and the auto-trigger effect.  *)
(*                                                                         *)
(* Every action is one event handler, or one continuation of an async      *)
(* function after an await, followed by the render it causes and by the    *)
(* useEffect that runs after that render (operator Settle).                *)
(*                                                                         *)
(* Texts are sequences of one-character strings.  Indices of the program   *)
(* are 0-based; TLA+ sequences are 1-based, so diffs[i] of the program is  *)
(* heap[repoData][i + 1].                                                  *)
(***************************************************************************)
EXTENDS Integers, Sequences, FiniteSets, Bags, TLC

(***************************************************************************)
(* Bounds of the model.                                                    *)
(***************************************************************************)
\* page size of the commit list (the program uses 100; scaled down)
perPage == 2
\* largest number of commits an upstream repository holds
MaxCommits == 2
\* largest number of chat-completion requests in flight at once
MaxCalls == 2
\* largest number of fetchRepoData runs in flight at once
MaxFetches == 1
\* largest number of commits of a repository, when only Process is used
MaxUpstream == 6

\* size limit of the prompt body (the program uses 50,000; scaled down)
Limit == 42
\* largest length of a commit message and of a patch, when prompts are built
MaxText == 4

\* the longest file list of a commit detail
MaxFiles == 2

\* the most runs of fetchRepoData in flight where runs may overlap
MaxOverlap == 2

\* null, as the value of repoData: no object (the objects are 1, 2, ...)
Null == 0
\* undefined, as the value of an optional text: no text is this sequence
Undefined == <<"undefined">>

(***************************************************************************)
(* Small helpers over sequences.                                           *)
(***************************************************************************)
Min(a, b) == IF a < b THEN a ELSE b
Max(a, b) == IF a > b THEN a ELSE b

IsSpace(c) == c \in {" ", "\t", "\n"}

RECURSIVE trimStart(_)
trimStart(s) ==
  IF s = <<>> THEN <<>>
  ELSE IF IsSpace(Head(s)) THEN trimStart(Tail(s)) ELSE s

RECURSIVE trimEnd(_)
trimEnd(s) ==
  IF s = <<>> THEN <<>>
  ELSE IF IsSpace(s[Len(s)]) THEN trimEnd(SubSeq(s, 1, Len(s) - 1)) ELSE s

\* String.prototype.trim
trim(s) == trimEnd(trimStart(s))

\* String.prototype.startsWith
startsWith(s, p) == Len(s) >= Len(p) /\ SubSeq(s, 1, Len(p)) = p

SkPrefix == <<"s", "k", "-">>

\* the values the user types into the OpenAI key field: nothing, a text
\* that is no key, a key, and a key typed after a space
Keys == { <<>>, <<"x">>, <<"s", "k", "-">>, <<" ", "s", "k", "-">> }

\* the texts a successful chat completion returns
Responses == { <<"r", "1">>, <<"r", "2">> }

(***************************************************************************)
(* The hosting API.  An upstream repository is [n |-> its number of         *)
(* commits]; its commits are numbered 1..n, newest first.  The odd commits *)
(* carry patch data, the even ones do not (binary files only).             *)
(***************************************************************************)

\* the commit detail of commit k of repository u: whether it has a files
\* field, and the files; a repository that has a detail field answers with
\* it for every commit
UpstreamDetail(u, k) ==
  IF "detail" \in DOMAIN u THEN u.detail
  ELSE IF k % 2 = 1
    THEN [hasFiles |-> TRUE,
          files |-> << [filename |-> <<"a">>, patch |-> <<"X">>],
                       [filename |-> <<"b">>, patch |-> Undefined] >>]
    ELSE [hasFiles |-> TRUE,
          files |-> << [filename |-> <<"b">>, patch |-> Undefined] >>]

\* the commit summary the list endpoint returns for commit k of repository u
UpstreamCommit(u, k) ==
  [sha |-> <<k>>, commit |-> [message |-> <<"m">>]]

\* the whole commit list of repository u, in upstream order
UpstreamList(u) == [k \in 1..u.n |-> UpstreamCommit(u, k)]

\* GET .../commits?per_page=n&page=p on repository u
UpstreamPage(u, n, p) ==
  SubSeq(UpstreamList(u), (p - 1) * n + 1, Min(p * n, u.n))

\* the repositories the user asks for
Repos(maxN) == [n : 0..maxN]

\* the file entries of a commit detail: a filename and a patch, which is
\* absent, the empty text or a text
FileEntries ==
  [filename : { <<"a">>, <<"b">> },
   patch : { Undefined, <<>>, <<"p">>, <<"q">> }]

\* the sequences of at most n elements of S
SeqUpTo(S, n) == UNION { [1..m -> S] : m \in 0..n }

\* the commit details the hosting API answers with: without a files
\* field, or with a file list of at most MaxFiles entries
Details ==
  { [hasFiles |-> FALSE, files |-> <<>>] }
    \cup [hasFiles : {TRUE}, files : SeqUpTo(FileEntries, MaxFiles)]

\* the repositories of one commit, by the detail of the commit
DetailRepos == [n : {1}, detail : Details]

\* the repositories none of whose commits carries a patch
UnpatchedRepos ==
  [n : 1..MaxCommits,
   detail : { [hasFiles |-> TRUE,
               files |-> << [filename |-> <<"b">>, patch |-> Undefined] >>] }]

\* the repositories all of whose commits carry a patch
PatchedRepos ==
  [n : 0..MaxCommits,
   detail : { [hasFiles |-> TRUE,
               files |-> << [filename |-> <<"a">>, patch |-> <<"p">>] >>] }]

(***************************************************************************)
(* State.                                                                  *)
(***************************************************************************)
VARIABLES
  repoData,       \* useState<RepoData | null>: Null, or the identity of the
                  \* record objects the diffs array refers to (a key of heap)
  heap,           \* the CommitDiff objects: heap[e] are the records created
                  \* by one ingestion; arrays copied from one another by
                  \* [...repoData.diffs] share these objects
  isProcessing,   \* useState(false)
  openaiKey,      \* useState("")
  showLessons,    \* useState(false)
  currentIndex,   \* useState(0)
  calls,          \* bag of chat-completion requests in flight, each with
                  \* the index and the repoData its generateLesson closed over
  fetches,        \* bag of fetchRepoData runs in flight
  lastOp,         \* the handler or continuation that ran last
  sent,           \* indices of the chat-completion requests it issued
  toasts          \* titles of the toasts it raised

vars == << repoData, heap, isProcessing, openaiKey, showLessons, currentIndex,
           calls, fetches, lastOp, sent, toasts >>

Epochs == 1..(MaxCalls + 2)

\* repoData.diffs of the current state (empty when repoData is null)
Diffs == IF repoData = Null THEN <<>> ELSE heap[repoData]

(***************************************************************************)
(* fetchRepoData, lines 127-142: the record built from one commit detail.  *)
(***************************************************************************)
\* the backquote character, which a TLA+ string cannot hold
BQ == "bq"

\* the template literal of line 132: "### ", the filename, a newline, the
\* opening fence with the word diff, the patch, and the closing fence
DiffBlock(file) ==
  <<"#", "#", "#", " ">> \o file.filename
    \o <<"\n", BQ, BQ, BQ, "d", "i", "f", "f", "\n">> \o file.patch
    \o <<"\n", BQ, BQ, BQ, "\n">>

\* mutant of HasPatch: the empty patch counts as a patch
HasPatch_Defined(file) == file.patch # Undefined

\* if (file.patch): the patch is present and not the empty string
HasPatch(file) == file.patch # Undefined /\ file.patch # <<>>

\* the forEach of lines 129-135
RECURSIVE DiffBlocks(_)
DiffBlocks(files) ==
  IF files = <<>> THEN <<>>
  ELSE (IF HasPatch(Head(files)) THEN DiffBlock(Head(files)) ELSE <<>>)
         \o DiffBlocks(Tail(files))

\* lines 127-136
DiffText(commitDetails) ==
  IF commitDetails.hasFiles /\ Len(commitDetails.files) > 0
    THEN DiffBlocks(commitDetails.files)
    ELSE <<>>

\* diffs.push({sha, message, diff}): a record without explanation
NewRecord(commit, commitDetails) ==
  [sha |-> commit.sha, message |-> commit.commit.message,
   diff |-> DiffText(commitDetails), explanation |-> Undefined]

(***************************************************************************)
(* generateLesson(index), lines 181-247, up to its first await, as run by  *)
(* a closure over repoData = rd and openaiKey = key.  The result says what *)
(* it does to isProcessing ("keep": untouched; "false": set to true and,   *)
(* in finally, back to false; "true": left true across the await), the     *)
(* requests it issues and the toasts it raises.                            *)
(***************************************************************************)
\* String.prototype.slice(a, b), for 0 <= a <= b
slice(s, a, b) == SubSeq(s, a + 1, Min(b, Len(s)))

\* the text "Commit message: " of line 216
CommitMessagePrefix ==
  << "C", "o", "m", "m", "i", "t", " ", "m", "e", "s", "s", "a", "g", "e",
     ":", " " >>

\* the marker of line 220
TruncationMarker ==
  << "\n", "\n", "[", "C", "o", "n", "t", "e", "n", "t", " ", "t", "r", "u",
     "n", "c", "a", "t", "e", "d", " ", "d", "u", "e", " ", "t", "o", " ",
     "s", "i", "z", "e", " ", "l", "i", "m", "i", "t", "s", "]" >>

\* line 216: the prompt body before truncation
Body(diff) ==
  CommitMessagePrefix \o diff.message \o <<"\n", "\n">> \o diff.diff

\* mutant of TooLong: a body of exactly Limit characters is cut as well
TooLong_OffByOne(content) == Len(content) >= Limit

\* line 217: contentToAnalyze.length > 50_000
TooLong(content) == Len(content) > Limit

\* lines 216-221: the content of the user message of the request
contentToAnalyze(diff) ==
  IF TooLong(Body(diff))
    THEN slice(Body(diff), 0, Limit) \o TruncationMarker
    ELSE Body(diff)

\* mutant of NoDiff: the guard never acts
NoDiff_Never(diff) == FALSE

\* line 207, !diff.diff: the diff text of the record is the empty string
NoDiff(diff) == diff.diff = <<>>

generateLesson(index, rd, hp, key) ==
  IF rd = Null \/ trim(key) = <<>>
    THEN [busy |-> "keep", calls |-> <<>>, toasts |-> <<"Missing data">>]
  ELSE IF ~startsWith(trim(key), SkPrefix)
    THEN [busy |-> "keep", calls |-> <<>>, toasts |-> <<"Invalid API Key">>]
  ELSE IF index >= Len(hp[rd])
    \* diff is undefined: diff.diff throws, caught at line 276
    THEN [busy |-> "false", calls |-> <<>>, toasts |-> <<"Analysis failed">>]
  ELSE IF NoDiff(hp[rd][index + 1])
    THEN [busy |-> "false", calls |-> <<>>, toasts |-> <<"No diff">>]
  ELSE [busy |-> "true",
        calls |-> << [index |-> index, diffs |-> rd,
                      content |-> contentToAnalyze(hp[rd][index + 1])] >>,
        toasts |-> <<>>]

Busy(b, ip) == IF b = "keep" THEN ip ELSE b = "true"

RECURSIVE SeqToBag(_)
SeqToBag(q) ==
  IF q = <<>> THEN EmptyBag ELSE SetToBag({Head(q)}) (+) SeqToBag(Tail(q))

Indices(q) == [j \in 1..Len(q) |-> q[j].index]

\* a state s after generateLesson(index) ran in it
AfterGenerate(s, index) ==
  LET g == generateLesson(index, s.rd, s.hp, s.key)
  IN [s EXCEPT !.ip = Busy(g.busy, s.ip),
               !.cs = @ (+) SeqToBag(g.calls),
               !.snt = @ \o Indices(g.calls),
               !.ts = @ \o g.toasts]

(***************************************************************************)
(* Rendering.  The lesson viewer (lines 446-460) reads                     *)
(* repoData.diffs[currentIndex].sha: with currentIndex outside the array   *)
(* the render throws and React unmounts the component.                     *)
(***************************************************************************)
RenderThrows(rd, hp, sl, ci) == rd # Null /\ sl /\ ci >= Len(hp[rd])

Mounted == ~RenderThrows(repoData, heap, showLessons, currentIndex)

(***************************************************************************)
(* useEffect, lines 303-312.  It runs after a render in which one of its   *)
(* dependencies changed.                                                   *)
(***************************************************************************)
\* mutant of EffectFires: the effect does not look at the view
EffectFires_AnyView(s) ==
  /\ s.rd # Null
  /\ s.ci < Len(s.hp[s.rd])
  /\ s.hp[s.rd][s.ci + 1].explanation = Undefined
  /\ ~s.ip

\* mutant of EffectFires: the effect never calls generateLesson
EffectFires_Never(s) == FALSE

EffectFires(s) ==
  /\ s.sl
  /\ s.rd # Null
  /\ s.ci < Len(s.hp[s.rd])
  /\ s.hp[s.rd][s.ci + 1].explanation = Undefined
  /\ ~s.ip

DepsChanged(s) ==
  \/ s.sl # showLessons
  \/ s.rdSet
  \/ s.ci # currentIndex
  \/ s.key # openaiKey
  \/ s.ip # isProcessing

Effect(s) ==
  IF ~RenderThrows(s.rd, s.hp, s.sl, s.ci) /\ DepsChanged(s) /\ EffectFires(s)
    THEN AfterGenerate(s, s.ci)
    ELSE s

\* the state of the component as a record, for the handlers to update
Now ==
  [rd |-> repoData, rdSet |-> FALSE, hp |-> heap, ip |-> isProcessing,
   key |-> openaiKey, sl |-> showLessons, ci |-> currentIndex,
   cs |-> calls, fs |-> fetches, snt |-> <<>>, ts |-> <<>>]

\* record objects no array refers to any more are collected
Referenced(s) == {c.diffs : c \in BagToSet(s.cs)} \cup ({s.rd} \ {Null})
Collect(s) == [e \in Epochs |-> IF e \in Referenced(s) THEN s.hp[e] ELSE <<>>]

\* Which place an object is stored at is immaterial.  After every step the
\* places are renamed so that the objects of the current repoData are at
\* place 1: Swap(e, x) exchanges the names 1 and e.
Swap(e, x) == IF x = e THEN 1 ELSE IF x = 1 THEN e ELSE x
SwapCall(e, c) == [c EXCEPT !.diffs = Swap(e, @)]
SwapCalls(e, cs) ==
  [c \in {SwapCall(e, d) : d \in DOMAIN cs} |-> cs[SwapCall(e, c)]]

\* the handler's updates s0 are applied, the component renders and the
\* effect runs
Settle(op, s0) ==
  \E s \in {Effect(s0)} :
     /\ BagCardinality(s.cs) <= MaxCalls
     /\ isProcessing' = s.ip
     /\ openaiKey' = s.key
     /\ showLessons' = s.sl
     /\ currentIndex' = s.ci
     /\ fetches' = s.fs
     /\ sent' = s.snt
     /\ toasts' = s.ts
     /\ IF s.rd = Null
          THEN /\ repoData' = Null
               /\ heap' = Collect(s)
               /\ calls' = s.cs
               /\ lastOp' = op
          ELSE /\ repoData' = 1
               /\ heap' = [x \in Epochs |-> Collect(s)[Swap(s.rd, x)]]
               /\ calls' = SwapCalls(s.rd, s.cs)
               /\ lastOp' = [op EXCEPT !.c = IF @.diffs = Null THEN @
                                             ELSE SwapCall(s.rd, @)]

NoFetch ==
  [repo |-> [n |-> 0], phase |-> "none", page |-> 0, allCommits |-> <<>>,
   requested |-> 0, outcomes |-> <<>>, diffs |-> <<>>]
NoCall == [index |-> -1, diffs |-> Null]
Op(name) == [op |-> name, f |-> NoFetch, c |-> NoCall, why |-> ""]

Init ==
  /\ repoData = Null
  /\ heap = [e \in Epochs |-> <<>>]
  /\ isProcessing = FALSE
  /\ openaiKey = <<>>
  /\ showLessons = FALSE
  /\ currentIndex = 0
  /\ calls = EmptyBag
  /\ fetches = EmptyBag
  /\ lastOp = Op("init")
  /\ sent = <<>>
  /\ toasts = <<>>

(***************************************************************************)
(* The controls, as rendered: a control can be used when it is rendered    *)
(* and not disabled.                                                       *)
(***************************************************************************)
\* Process button, line 352
ProcessEnabled == Mounted /\ ~isProcessing

\* Generate Lessons button, lines 391-395
StartEnabled == Mounted /\ repoData # Null /\ ~showLessons

\* mutant of GenerateEnabled: the list shows one button more than there
\* are records
GenerateEnabled_OneMore(idx) ==
  /\ Mounted /\ repoData # Null /\ ~showLessons
  /\ idx \in 0..Len(Diffs)
  /\ ~(isProcessing \/ trim(openaiKey) = <<>>)

\* Generate / Regenerate Lesson button of item idx, lines 397, 422-425
GenerateEnabled(idx) ==
  /\ Mounted /\ repoData # Null /\ ~showLessons
  /\ idx \in 0..(Len(Diffs) - 1)
  /\ ~(isProcessing \/ trim(openaiKey) = <<>>)

\* Exit button, lines 446, 480
ExitEnabled == Mounted /\ repoData # Null /\ showLessons

\* Prev button, lines 484-492
PrevEnabled ==
  /\ Mounted /\ repoData # Null /\ showLessons
  /\ ~(currentIndex = 0 \/ isProcessing)

\* Next button, lines 493-506
NextEnabled ==
  /\ Mounted /\ repoData # Null /\ showLessons
  /\ ~(currentIndex >= Len(Diffs) - 1 \/ isProcessing)

(***************************************************************************)
(* The user's actions.                                                     *)
(***************************************************************************)
\* onChange of the key field, line 367
SetOpenaiKey(k) ==
  /\ Mounted
  /\ k # openaiKey
  /\ Settle(Op("setOpenaiKey"), [Now EXCEPT !.key = k])

\* onClick of an item's button, line 423
Generate(idx) ==
  /\ GenerateEnabled(idx)
  /\ Settle([Op("generate") EXCEPT !.c = [index |-> idx, diffs |-> repoData]],
            AfterGenerate(Now, idx))

\* mutant of StartIndex: the index is left where it was
StartIndex_Keeps == currentIndex

\* line 297: setCurrentIndex(0)
StartIndex == 0

\* startLessons, lines 295-301
startLessons ==
  /\ StartEnabled
  /\ Settle(Op("start"),
       IF Len(Diffs) > 0
         THEN LET s == [Now EXCEPT !.ci = StartIndex, !.sl = TRUE]
              IN IF Diffs[1].explanation = Undefined
                   THEN AfterGenerate(s, 0)
                   ELSE s
         ELSE Now)

\* mutant of NextIndex: the index is left where it was
NextIndex_Stays(i, length) == i

\* lines 495-497: (i) => Math.min(i + 1, repoData.diffs.length - 1)
NextIndex(i, length) == Min(i + 1, length - 1)

\* line 487: (i) => Math.max(i - 1, 0)
PrevIndex(i) == Max(i - 1, 0)

\* onClick of Next, lines 494-498
NextLesson ==
  /\ NextEnabled
  /\ Settle(Op("next"),
            [Now EXCEPT !.ci = NextIndex(currentIndex, Len(Diffs))])

\* onClick of Prev, lines 486-488
PrevLesson ==
  /\ PrevEnabled
  /\ Settle(Op("prev"), [Now EXCEPT !.ci = PrevIndex(currentIndex)])

\* mutant of ExitLessons: leaving the walkthrough resets the index
ExitLessons_ResetsIndex ==
  /\ ExitEnabled
  /\ Settle(Op("exit"), [Now EXCEPT !.sl = FALSE, !.ci = 0])

\* mutant of ExitLessons: leaving the walkthrough cancels the requests in
\* flight
ExitLessons_Cancels ==
  /\ ExitEnabled
  /\ Settle(Op("exit"),
       [Now EXCEPT !.sl = FALSE, !.cs = EmptyBag, !.ip = FALSE])

\* onClick of Exit, line 480
ExitLessons ==
  /\ ExitEnabled
  /\ Settle(Op("exit"), [Now EXCEPT !.sl = FALSE])

(***************************************************************************)
(* generateLesson after its await, lines 249-288: the response to the      *)
(* request c arrives.                                                      *)
(***************************************************************************)
\* a 2xx response whose choices[0].message.content is the text r (kept in
\* lastOp.why)
GenOk(c, r) ==
  /\ Mounted
  /\ BagIn(c, calls)
  /\ Settle([Op("genOk") EXCEPT !.c = c, !.why = r],
       [Now EXCEPT !.hp[c.diffs][c.index + 1].explanation = r,
                   !.rd = c.diffs,
                   !.rdSet = TRUE,
                   !.ip = FALSE,
                   !.cs = @ (-) SetToBag({c}),
                   !.ts = <<"Lesson generated">>])

\* fetch rejects ("network"), the status is not 2xx ("status"), or the
\* body has no choices[0].message.content ("malformed")
FailureKinds == {"network", "status", "malformed"}

GenFail(c, why) ==
  /\ Mounted
  /\ BagIn(c, calls)
  /\ Settle([Op("genFail") EXCEPT !.c = c, !.why = why],
       [Now EXCEPT !.ip = FALSE,
                   !.cs = @ (-) SetToBag({c}),
                   !.ts = <<"Analysis failed">>])

(***************************************************************************)
(* extractRepoInfo, lines 44-53.  The inputs are the texts the user can    *)
(* type into the URL field, made of an optional space, an optional scheme  *)
(* https://, an optional host and a path of up to three segments; they     *)
(* have no port, credentials, query, fragment or dot segment.              *)
(***************************************************************************)
DotGit == << ".", "g", "i", "t" >>

Schemes == { <<>>, << "h", "t", "t", "p", "s", ":", "/", "/" >> }
Hosts == { <<>>, << "g", "i", "t", "h", "u", "b", ".", "c", "o", "m" >> }
OwnerSegments == { <<>>, <<"o">> }
NameSegments ==
  { <<>>, <<"n">>, << "n", ".", "g", "i", "t" >>, << "n", ".", "g", "i", "t", "x" >> }
Paths ==
  {<<>>} \cup { <<o>> : o \in OwnerSegments }
    \cup { <<o, n>> : o \in OwnerSegments, n \in NameSegments }
    \cup { <<o, n, t>> : o \in OwnerSegments, n \in NameSegments,
                         t \in { <<>>, <<"t">> } }

\* what the user types, in pieces
Inputs == [pad : { <<>>, <<" ">> }, scheme : Schemes, host : Hosts,
           path : Paths]

\* every segment of a path is written after a slash
RECURSIVE JoinPath(_)
JoinPath(path) ==
  IF path = <<>> THEN <<>> ELSE <<"/">> \o Head(path) \o JoinPath(Tail(path))

\* the text typed
UrlText(in) == in.pad \o in.scheme \o in.host \o JoinPath(in.path)

\* String.prototype.indexOf, 1-based; 0 when p does not occur in s
IndexOf(s, p) ==
  LET hits == { i \in 1..(Len(s) - Len(p) + 1) :
                  SubSeq(s, i, i + Len(p) - 1) = p }
  IN IF hits = {} THEN 0 ELSE CHOOSE i \in hits : \A j \in hits : i <= j

\* String.prototype.split with a one-character separator
RECURSIVE split(_, _)
split(s, sep) ==
  LET i == IndexOf(s, <<sep>>)
  IN IF i = 0 THEN <<s>>
     ELSE <<SubSeq(s, 1, i - 1)>> \o split(SubSeq(s, i + 1, Len(s)), sep)

\* String.prototype.replace with a text pattern: the first occurrence
replace(s, p, r) ==
  LET i == IndexOf(s, p)
  IN IF i = 0 THEN s
     ELSE SubSeq(s, 1, i - 1) \o r \o SubSeq(s, i + Len(p), Len(s))

RECURSIVE DropSlashes(_)
DropSlashes(s) ==
  IF s # <<>> /\ Head(s) = "/" THEN DropSlashes(Tail(s)) ELSE s

\* new URL(url).pathname for a URL with a special scheme: leading and
\* trailing white space is dropped; the text up to the first colon must be
\* a scheme (letters, then no slash or space), else the constructor
\* throws; the slashes after the colon are skipped; the host runs to the
\* next slash and must not be empty, else the constructor throws; the rest
\* is the path, "/" when there is none
ParseURL(url) ==
  LET s == trim(url)
      colon == IndexOf(s, <<":">>)
      hasScheme == /\ colon > 1
                   /\ s[1] \notin {".", "/", " "}
                   /\ \A j \in 1..(colon - 1) : s[j] \notin {"/", " "}
      rest == DropSlashes(SubSeq(s, colon + 1, Len(s)))
      slash == IndexOf(rest, <<"/">>)
      host == IF slash = 0 THEN rest ELSE SubSeq(rest, 1, slash - 1)
  IN IF ~hasScheme \/ host = <<>>
       THEN [ok |-> FALSE, pathname |-> <<>>]
       ELSE [ok |-> TRUE,
             pathname |-> IF slash = 0 THEN <<"/">>
                          ELSE SubSeq(rest, slash, Len(rest))]

\* element i of an array, 1-based: undefined beyond its end
At(a, i) == IF i <= Len(a) THEN a[i] ELSE Undefined

\* mutant of Falsy: the empty text counts as a value
Falsy_OnlyUndefined(x) == x = Undefined

\* !x for a text or undefined
Falsy(x) == x = Undefined \/ x = <<>>

\* null, as the result of extractRepoInfo
NoRepoInfo == [ok |-> FALSE, owner |-> <<>>, repo |-> <<>>]

extractRepoInfo(url) ==
  LET u == ParseURL(url)
      parts == split(u.pathname, "/")
      owner == At(parts, 2)
      repo == At(parts, 3)
  IN IF ~u.ok THEN NoRepoInfo
     ELSE IF Falsy(owner) \/ Falsy(repo) THEN NoRepoInfo
     ELSE [ok |-> TRUE, owner |-> owner, repo |-> replace(repo, DotGit, <<>>)]

(***************************************************************************)
(* The body of a 2xx response of the chat-completion endpoint, lines       *)
(* 260-267: whether it has a choices array, and for each choice whether it *)
(* has a message, whether the message has a content, and the content.      *)
(***************************************************************************)
Choices ==
  { [hasMessage |-> FALSE, hasContent |-> FALSE, content |-> <<>>],
    [hasMessage |-> TRUE, hasContent |-> FALSE, content |-> <<>>] }
    \cup [hasMessage : {TRUE}, hasContent : {TRUE},
          content : Responses \cup { <<>> }]

Bodies ==
  { [hasChoices |-> FALSE, choices |-> <<>>] }
    \cup [hasChoices : {TRUE}, choices : SeqUpTo(Choices, 1)]

\* data.choices?.[0]?.message?.content
Content(data) ==
  IF ~data.hasChoices \/ Len(data.choices) = 0 THEN Undefined
  ELSE IF ~data.choices[1].hasMessage \/ ~data.choices[1].hasContent
    THEN Undefined
  ELSE data.choices[1].content

\* mutant of GenBody: the content is stored without the test of line 261
GenBody_Unchecked(c, data) == GenOk(c, Content(data))

\* lines 260-267: the body data of a 2xx response to request c arrives
GenBody(c, data) ==
  IF Falsy(Content(data))
    THEN GenFail(c, "malformed")
    ELSE GenOk(c, Content(data))

(***************************************************************************)
(* fetchRepoData, lines 57-177.  A run in flight is a record: the          *)
(* repository it reads, the loop it is in, the page counter, allCommits,   *)
(* the number of detail requests issued so far, the outcome of each        *)
(* detail request answered so far, and diffs.                              *)
(***************************************************************************)
\* statuses of a response of the hosting API that is not ok
Failures == {"403", "500"}

\* mutant of IsLastPage: a full page is taken for the last one
IsLastPage_OffByOne(commitsPage, n) == Len(commitsPage) <= n

\* mutant of IsLastPage: only an empty page ends the loop
IsLastPage_OnlyEmpty(commitsPage, n) == Len(commitsPage) = 0

\* line 103: commitsPage.length < perPage
IsLastPage(commitsPage, n) == Len(commitsPage) < n

\* mutant of IsRateLimit: no failure stops the loop
IsRateLimit_Never(status) == FALSE

\* mutant of IsRateLimit: every failure stops the loop
IsRateLimit_Always(status) == TRUE

\* lines 117-123 and 145-148: the error thrown for this failure carries a
\* message that includes "rate limit"
IsRateLimit(status) == status = "403"

\* the record objects of a finished run are stored in a fresh place
FreshEpoch == CHOOSE e \in Epochs \ Referenced(Now) :
                \A d \in Epochs \ Referenced(Now) : e <= d

\* fetchRepoData past its checks of the URL, lines 77-91, for repository
\* u: isProcessing is set and the first page is requested
StartRun(u) ==
  Settle(Op("process"),
       [Now EXCEPT !.ip = TRUE,
                   !.fs = @ (+) SetToBag({[repo |-> u, phase |-> "pages",
                                           page |-> 1, allCommits |-> <<>>,
                                           requested |-> 0, outcomes |-> <<>>,
                                           diffs |-> <<>>]})])

\* onClick of Process with the URL of repository u, lines 57-91, for at
\* most MaxFetches runs in flight
Process(u) ==
  /\ ProcessEnabled
  /\ BagCardinality(fetches) < MaxFetches
  /\ StartRun(u)

\* the same click, for at most MaxOverlap runs in flight
ProcessOverlapping(u) ==
  /\ ProcessEnabled
  /\ BagCardinality(fetches) < MaxOverlap
  /\ StartRun(u)

\* onClick of Process with the text of input in typed into the URL field,
\* lines 57-91, when the hosting API holds n commits under the identifier
\* the text names: a blank text and a text extractRepoInfo returns null
\* for are refused with a toast; else the run starts, and its requests
\* carry the owner and the repo of the identifier
ProcessUrl(in, n) ==
  /\ ProcessEnabled
  /\ LET url == UrlText(in)
         repoInfo == extractRepoInfo(url)
         refused == [Op("invalidUrl") EXCEPT
                       !.f = [NoFetch EXCEPT !.repo = [n |-> 0, input |-> in]]]
     IN IF trim(url) = <<>>
          THEN Settle([refused EXCEPT !.why = "blank"],
                      [Now EXCEPT !.ts = <<"Invalid URL">>])
        ELSE IF ~repoInfo.ok
          THEN Settle([refused EXCEPT !.why = "null"],
                      [Now EXCEPT !.ts = <<"Invalid GitHub URL">>])
        ELSE Process([n |-> n, owner |-> repoInfo.owner,
                      repo |-> repoInfo.repo, input |-> in])

\* the run old continues as f
Continue(name, why, old, f) ==
  Settle([Op(name) EXCEPT !.why = why],
    [Now EXCEPT !.fs = (@ (-) SetToBag({old})) (+) SetToBag({f})])

\* lines 160-165 and 174-176: the loop over allCommits has ended; f is the
\* run as it ends
Finish(name, why, old, f, ts) ==
  Settle([Op(name) EXCEPT !.f = f, !.why = why],
    [Now EXCEPT !.hp[FreshEpoch] = f.diffs,
                !.rd = FreshEpoch,
                !.rdSet = TRUE,
                !.ip = FALSE,
                !.fs = @ (-) SetToBag({old}),
                !.ts = ts \o <<"Repository processed successfully">>])

\* lines 110-116: the next commit's detail is requested, or the loop ends
Advance(name, why, old, f) ==
  IF f.requested < Len(f.allCommits)
    THEN Continue(name, why, old, [f EXCEPT !.requested = @ + 1])
    ELSE Finish(name, why, old, f, <<>>)

\* lines 101-105: a commit-list page arrives with status ok
PageOk(f) ==
  /\ Mounted
  /\ BagIn(f, fetches)
  /\ f.phase = "pages"
  /\ LET commitsPage == UpstreamPage(f.repo, perPage, f.page)
         g == [f EXCEPT !.allCommits = @ \o commitsPage]
     IN IF IsLastPage(commitsPage, perPage)
          THEN Advance("pageOk", "", f, [g EXCEPT !.phase = "details"])
          ELSE Continue("pageOk", "", f, [g EXCEPT !.page = @ + 1])

\* mutant of PageFail: the failure is taken for the end of the list, and
\* the commits of the pages fetched so far are processed
PageFail_KeepsPartial(f, status) ==
  /\ Mounted
  /\ BagIn(f, fetches)
  /\ f.phase = "pages"
  /\ Advance("pageFail", status, f, [f EXCEPT !.phase = "details"])

\* lines 93-99: the message of the error thrown for a commit-list page
\* request that fails with this status
PageError(status) ==
  IF status = "403"
    THEN "GitHub API rate limit reached. Provide a personal token."
    ELSE "Failed to fetch commit history"

\* lines 166-173: the toast of the outer catch for the error with this
\* message, its title and its description; the error goes to the console
\* only
ProcessFailedToast(message) ==
  "Error: Failed to process repository. Please check the URL and try again."

\* lines 93-99 and 166-176: a commit-list page request fails; the error is
\* caught by the outer catch
PageFail(f, status) ==
  /\ Mounted
  /\ BagIn(f, fetches)
  /\ f.phase = "pages"
  /\ Settle([Op("pageFail") EXCEPT !.f = f, !.why = status],
       [Now EXCEPT !.ip = FALSE,
                   !.fs = @ (-) SetToBag({f}),
                   !.ts = <<ProcessFailedToast(PageError(status))>>])

\* lines 125-142: the detail of commit number f.requested arrives
DetailOk(f) ==
  /\ Mounted
  /\ BagIn(f, fetches)
  /\ f.phase = "details"
  /\ LET commit == f.allCommits[f.requested]
         commitDetails == UpstreamDetail(f.repo, commit.sha[1])
     IN Advance("detailOk", "", f,
          [f EXCEPT !.outcomes = Append(@, "ok"),
                    !.diffs = Append(@, NewRecord(commit, commitDetails))])

\* lines 117-123 and 143-157: the detail request of commit number
\* f.requested fails; the error is caught by the inner catch
DetailFail(f, status) ==
  /\ Mounted
  /\ BagIn(f, fetches)
  /\ f.phase = "details"
  /\ LET g == [f EXCEPT !.outcomes = Append(@, status)]
     IN IF IsRateLimit(status)
          THEN Finish("detailFail", status, f, g, <<"GitHub rate limit">>)
          ELSE Advance("detailFail", status, f, g)

Next ==
  \/ \E k \in Keys : SetOpenaiKey(k)
  \/ \E idx \in 0..(MaxCommits - 1) : Generate(idx)
  \/ startLessons
  \/ NextLesson
  \/ PrevLesson
  \/ ExitLessons
  \/ \E c \in BagToSet(calls), r \in Responses : GenOk(c, r)
  \/ \E c \in BagToSet(calls), why \in FailureKinds : GenFail(c, why)
  \/ \E u \in Repos(MaxCommits) : Process(u)
  \/ \E f \in BagToSet(fetches) : PageOk(f)
  \/ \E f \in BagToSet(fetches), status \in Failures : PageFail(f, status)
  \/ \E f \in BagToSet(fetches) : DetailOk(f)
  \/ \E f \in BagToSet(fetches), status \in Failures : DetailFail(f, status)

Spec == Init /\ [][Next]_vars

(***************************************************************************)
(* The component when every request in flight is eventually answered: the  *)
(* hosting API and the chat-completion endpoint answer every request, with *)
(* success or with a failure.                                              *)
(***************************************************************************)
\* the response of a chat-completion request arrives
GenResponds ==
  \E c \in BagToSet(calls) :
     \/ \E r \in Responses : GenOk(c, r)
     \/ \E why \in FailureKinds : GenFail(c, why)

\* the response of a request to the hosting API arrives
FetchResponds ==
  \E f \in BagToSet(fetches) :
     \/ PageOk(f)
     \/ DetailOk(f)
     \/ \E status \in Failures : PageFail(f, status) \/ DetailFail(f, status)

SpecLive ==
  Init /\ [][Next]_vars /\ WF_vars(GenResponds) /\ WF_vars(FetchResponds)

(***************************************************************************)
(* The component when the user only processes repositories, one after the  *)
(* other, with repositories of up to MaxUpstream commits.                  *)
(***************************************************************************)
NextIngest ==
  \/ \E u \in Repos(MaxUpstream) : Process(u)
  \/ \E f \in BagToSet(fetches) : PageOk(f)
  \/ \E f \in BagToSet(fetches), status \in Failures : PageFail(f, status)
  \/ \E f \in BagToSet(fetches) : DetailOk(f)
  \/ \E f \in BagToSet(fetches), status \in Failures : DetailFail(f, status)

SpecIngest == Init /\ [][NextIngest]_vars

(***************************************************************************)
(* The component when the user types texts into the URL field and clicks   *)
(* Process, for repositories of at most one commit.                        *)
(***************************************************************************)
NextLocate ==
  \/ \E in \in Inputs, n \in 0..1 : ProcessUrl(in, n)
  \/ \E f \in BagToSet(fetches) : PageOk(f)
  \/ \E f \in BagToSet(fetches), status \in Failures : PageFail(f, status)
  \/ \E f \in BagToSet(fetches) : DetailOk(f)
  \/ \E f \in BagToSet(fetches), status \in Failures : DetailFail(f, status)

SpecLocate == Init /\ [][NextLocate]_vars

(***************************************************************************)
(* The component when the user processes repositories of one commit whose  *)
(* detail is any of Details.                                               *)
(***************************************************************************)
NextDetail ==
  \/ \E u \in DetailRepos : Process(u)
  \/ \E f \in BagToSet(fetches) : PageOk(f)
  \/ \E f \in BagToSet(fetches), status \in Failures : PageFail(f, status)
  \/ \E f \in BagToSet(fetches) : DetailOk(f)
  \/ \E f \in BagToSet(fetches), status \in Failures : DetailFail(f, status)

SpecDetail == Init /\ [][NextDetail]_vars

(***************************************************************************)
(* The component when the user processes repositories of at most one       *)
(* commit, types a key and starts the lessons, and up to MaxOverlap runs   *)
(* of fetchRepoData are followed.                                          *)
(***************************************************************************)
NextOverlap ==
  \/ \E k \in Keys : SetOpenaiKey(k)
  \/ startLessons
  \/ \E c \in BagToSet(calls), r \in Responses : GenOk(c, r)
  \/ \E u \in Repos(1) : ProcessOverlapping(u)
  \/ \E f \in BagToSet(fetches) : PageOk(f)
  \/ \E f \in BagToSet(fetches), status \in Failures : PageFail(f, status)
  \/ \E f \in BagToSet(fetches) : DetailOk(f)
  \/ \E f \in BagToSet(fetches), status \in Failures : DetailFail(f, status)

SpecOverlap == Init /\ [][NextOverlap]_vars

(***************************************************************************)
(* The component when the repositories hold at most one commit and every   *)
(* chat-completion request is answered with a 2xx response whose body is   *)
(* any of Bodies.                                                          *)
(***************************************************************************)
NextBody ==
  \/ \E k \in Keys : SetOpenaiKey(k)
  \/ Generate(0)
  \/ startLessons
  \/ ExitLessons
  \/ \E c \in BagToSet(calls), data \in Bodies : GenBody(c, data)
  \/ \E u \in Repos(1) : Process(u)
  \/ \E f \in BagToSet(fetches) : PageOk(f)
  \/ \E f \in BagToSet(fetches) : DetailOk(f)

SpecBody == Init /\ [][NextBody]_vars

(***************************************************************************)
(* The component when every commit of the repositories carries a patch,    *)
(* so that a request can be issued for every record, the key typed is      *)
(* valid and every request succeeds.                                       *)
(***************************************************************************)
NextPatched ==
  \/ SetOpenaiKey(SkPrefix)
  \/ \E idx \in 0..(MaxCommits - 1) : Generate(idx)
  \/ startLessons
  \/ NextLesson
  \/ ExitLessons
  \/ \E c \in BagToSet(calls) : GenOk(c, <<"r", "1">>)
  \/ \E u \in PatchedRepos : Process(u)
  \/ \E f \in BagToSet(fetches) : PageOk(f)
  \/ \E f \in BagToSet(fetches) : DetailOk(f)

SpecPatched == Init /\ [][NextPatched]_vars

(***************************************************************************)
(* The component in the lesson viewer: the user types a valid key,         *)
(* processes repositories whose records have a diff or have none, and      *)
(* walks through the lessons; every response arrives at last.              *)
(***************************************************************************)
NextWalk ==
  \/ SetOpenaiKey(SkPrefix)
  \/ startLessons
  \/ NextLesson
  \/ PrevLesson
  \/ ExitLessons
  \/ \E c \in BagToSet(calls) : GenOk(c, <<"r", "1">>)
  \/ \E c \in BagToSet(calls) : GenFail(c, "status")
  \/ \E u \in Repos(MaxCommits) \cup UnpatchedRepos : Process(u)
  \/ \E f \in BagToSet(fetches) : PageOk(f)
  \/ \E f \in BagToSet(fetches) : PageFail(f, "500")
  \/ \E f \in BagToSet(fetches) : DetailOk(f)

SpecWalk ==
  Init /\ [][NextWalk]_vars /\ WF_vars(GenResponds) /\ WF_vars(FetchResponds)

(***************************************************************************)
(* The component once a repository of one commit has been processed and a  *)
(* key entered, for commit messages and patches of every length up to      *)
(* MaxText: lessons are generated for that commit.                         *)
(***************************************************************************)
\* the text of n characters ch
Rep(ch, n) == [j \in 1..n |-> ch]

\* the record fetchRepoData builds for a commit with a message of a
\* characters and one file with a patch of b characters
PromptRecord(a, b) ==
  NewRecord([sha |-> <<1>>, commit |-> [message |-> Rep("m", a)]],
            [hasFiles |-> TRUE,
             files |-> << [filename |-> <<"a">>, patch |-> Rep("p", b)] >>])

InitPrompt ==
  /\ repoData = 1
  /\ \E a \in 0..MaxText, b \in 1..MaxText :
       heap = [e \in Epochs |-> IF e = 1 THEN << PromptRecord(a, b) >>
                                         ELSE <<>>]
  /\ isProcessing = FALSE
  /\ openaiKey = SkPrefix
  /\ showLessons = FALSE
  /\ currentIndex = 0
  /\ calls = EmptyBag
  /\ fetches = EmptyBag
  /\ lastOp = Op("init")
  /\ sent = <<>>
  /\ toasts = <<>>

NextPrompt ==
  \/ Generate(0)
  \/ startLessons
  \/ ExitLessons
  \/ \E c \in BagToSet(calls), r \in Responses : GenOk(c, r)
  \/ \E c \in BagToSet(calls), why \in FailureKinds : GenFail(c, why)

SpecPrompt == InitPrompt /\ [][NextPrompt]_vars

(***************************************************************************)
(* Properties of fetchRepoData.                                            *)
(***************************************************************************)
\* the runs in flight, and the run that has just ended
Runs ==
  BagToSet(fetches) \cup (IF lastOp.f.phase = "none" THEN {} ELSE {lastOp.f})

\* the last step ended a run by storing its diffs (line 160)
Stored == lastOp.f.phase = "details"

\* the records of the commits of all whose detail request was answered ok
RECURSIVE OkRecords(_, _, _)
OkRecords(u, all, outcomes) ==
  IF outcomes = <<>> THEN <<>>
  ELSE (IF Head(outcomes) = "ok"
          THEN << NewRecord(Head(all), UpstreamDetail(u, Head(all).sha[1])) >>
          ELSE <<>>)
         \o OkRecords(u, Tail(all), Tail(outcomes))

Has403(f) == \E k \in 1..Len(f.outcomes) : f.outcomes[k] = "403"

\* C5: when the k-th detail request is answered 403, the run ends at once:
\* no run in flight has a 403 among its outcomes, the run that ended on a
\* 403 has issued exactly k detail requests, and the collection it stored
\* is the records of the commits fetched ok before it, in order.
C5_RateLimitShortCircuit ==
  /\ \A f \in BagToSet(fetches) : ~Has403(f)
  /\ (lastOp.op = "detailFail" /\ lastOp.why = "403") =>
       LET f == lastOp.f
           k == Len(f.outcomes)
       IN /\ Stored
          /\ f.outcomes[k] = "403"
          /\ \A j \in 1..(k - 1) : f.outcomes[j] # "403"
          /\ f.requested = k
          /\ repoData # Null
          /\ Diffs = OkRecords(f.repo, f.allCommits,
                               SubSeq(f.outcomes, 1, k - 1))

\* a run over six commits ended on a 403 at its fifth detail request,
\* after four commits fetched ok: four records are stored and the sixth
\* commit was never requested
C5_Witness ==
  /\ lastOp.op = "detailFail" /\ lastOp.why = "403"
  /\ lastOp.f.outcomes = <<"ok", "ok", "ok", "ok", "403">>
  /\ Len(lastOp.f.allCommits) = 6
  /\ lastOp.f.requested = 5
  /\ Len(Diffs) = 4

\* C6: a run that met no 403 has requested the detail of every enumerated
\* commit, and the collection it stored is exactly the records of the
\* commits whose detail request was answered ok, in the enumerated order.
C6_SkipOnlyFailed ==
  (Stored /\ ~Has403(lastOp.f)) =>
     LET f == lastOp.f
     IN /\ f.requested = Len(f.allCommits)
        /\ Len(f.outcomes) = Len(f.allCommits)
        /\ repoData # Null
        /\ Diffs = OkRecords(f.repo, f.allCommits, f.outcomes)

\* a run ended after a failed detail request that was followed by one
\* answered ok
C6_Witness ==
  /\ Stored /\ ~Has403(lastOp.f)
  /\ \E j, k \in 1..Len(lastOp.f.outcomes) :
       j < k /\ lastOp.f.outcomes[j] = "500" /\ lastOp.f.outcomes[k] = "ok"
  /\ Len(Diffs) < Len(lastOp.f.allCommits)

\* the steps of fetchRepoData
IngestOps == {"process", "pageOk", "pageFail", "detailOk", "detailFail"}

\* C7: a step in which a commit-list page request fails ends the run
\* with no detail request issued and nothing built, and no step of a run
\* but the one that ends its loop over the commits changes the collection:
\* a run that fails at a page leaves the collection as it found it.
C7_AllOrNothing ==
  [][/\ lastOp'.op = "pageFail" =>
          /\ lastOp'.f.phase = "pages"
          /\ lastOp'.f.requested = 0
          /\ lastOp'.f.diffs = <<>>
          /\ BagCardinality(fetches') = BagCardinality(fetches) - 1
     /\ (lastOp'.op \in IngestOps /\ lastOp'.f.phase # "details") =>
          /\ repoData' = repoData
          /\ Diffs' = Diffs]_vars

\* the second page request of a run failed while a collection was held
C7_Witness ==
  /\ lastOp.op = "pageFail"
  /\ Len(lastOp.f.allCommits) > 0
  /\ repoData # Null /\ Len(Diffs) > 0

\* the runs whose enumeration has ended
Enumerated == {f \in Runs : f.phase = "details"}

Ceil(a, b) == (a + b - 1) \div b

\* C8 as stated: the enumeration of N commits issues ceil(N / perPage) page
\* requests and yields the N commits in upstream order.
C8_CeilPages ==
  \A f \in Enumerated :
    /\ f.page = Ceil(f.repo.n, perPage)
    /\ f.allCommits = UpstreamList(f.repo)

\* C8 amended: the enumeration of N commits issues floor(N / perPage) + 1
\* page requests (ceil(N / perPage) unless N is a multiple of perPage) and
\* yields the N commits in upstream order.
C8_PagesRequested ==
  \A f \in Enumerated :
    /\ f.page = (f.repo.n \div perPage) + 1
    /\ (f.repo.n % perPage # 0 => f.page = Ceil(f.repo.n, perPage))
    /\ f.allCommits = UpstreamList(f.repo)

\* an enumeration of a positive multiple of perPage commits has ended
C8_Witness ==
  \E f \in Enumerated :
    f.repo.n > 0 /\ f.repo.n % perPage = 0 /\ Len(f.allCommits) = f.repo.n

(***************************************************************************)
(* Properties of the navigator and of generateLesson.                      *)
(***************************************************************************)
\* C1: in Walkthrough mode with a non-empty collection, currentIndex is an
\* index of the collection.
C1_IndexInBounds ==
  (showLessons /\ repoData # Null /\ Len(Diffs) > 0) =>
     (0 <= currentIndex /\ currentIndex < Len(Diffs))

\* C2: at most one chat-completion request is in flight.
C2_AtMostOneCall == BagCardinality(calls) <= 1

\* C3: while a chat-completion request is in flight, start, next and prev
\* are disabled.
C3_NavigationDisabled ==
  BagCardinality(calls) > 0 => ~StartEnabled /\ ~NextEnabled /\ ~PrevEnabled

\* C4: the step in which a generation call fails issues no new
\* chat-completion request for the index of that call.
C4_NoRetry ==
  lastOp.op = "genFail" =>
    \A j \in 1..Len(sent) : sent[j] # lastOp.c.index

\* C9: a generation call for index i that succeeds changes nothing of the
\* collection but the explanation of the record at i, and one that fails
\* (response not ok, malformed response, or refused before any request)
\* changes nothing of it.
C9_OnlyExplanationOfIndex ==
  [][/\ lastOp'.op = "genOk" =>
          /\ repoData # Null /\ repoData' # Null
          /\ Len(Diffs') = Len(Diffs)
          /\ \A j \in 1..Len(Diffs) :
               IF j = lastOp'.c.index + 1
                 THEN Diffs'[j] = [Diffs[j] EXCEPT
                                     !.explanation = Diffs'[j].explanation]
                 ELSE Diffs'[j] = Diffs[j]
     /\ (\/ lastOp'.op = "genFail"
         \/ (lastOp'.op = "generate" /\ sent' = <<>>)) =>
          /\ (repoData' = Null) = (repoData = Null)
          /\ Diffs' = Diffs]_vars

\* sha, message and diff of the records of a collection
Shape(ds) ==
  [j \in 1..Len(ds) |->
     [sha |-> ds[j].sha, message |-> ds[j].message, diff |-> ds[j].diff]]

\* C10: every step either leaves the length of the collection and the sha,
\* message and diff of its records as they were, or is the end of an
\* ingestion, which stores the newly built records, none with an
\* explanation.
C10_ShapeChangesOnlyByIngestion ==
  [][\/ /\ (repoData' = Null) = (repoData = Null)
        /\ Shape(Diffs') = Shape(Diffs)
     \/ /\ Stored'
        /\ repoData' # Null
        /\ Diffs' = lastOp'.f.diffs
        /\ \A j \in 1..Len(Diffs') : Diffs'[j].explanation = Undefined]_vars

(***************************************************************************)
(* Properties of the guards of generateLesson.                             *)
(***************************************************************************)
\* the handlers of the user's actions; generateLesson is called in them by
\* the handler itself or by the effect that runs after it
UserOps == {"setOpenaiKey", "generate", "start", "next", "prev", "exit"}

\* C11: with a key that does not start with "sk-" (the empty key included),
\* a step of the user issues no chat-completion request, leaves
\* isProcessing as it was and leaves the collection as it was.
C11_RejectedLocally ==
  [][(lastOp'.op \in UserOps /\ ~startsWith(openaiKey', SkPrefix)) =>
        /\ sent' = <<>>
        /\ isProcessing' = isProcessing
        /\ repoData' = repoData
        /\ Diffs' = Diffs]_vars

\* the sequence q holds the element x
Holds(q, x) == \E j \in 1..Len(q) : q[j] = x

\* C12: no chat-completion request in flight is for a record whose diff
\* is empty; Generate Lesson clicked on such a record issues no request,
\* leaves the collection as it was and ends with isProcessing false; and
\* every step in which generateLesson refuses a record for its empty diff
\* (toast "No diff") issues no request and ends with isProcessing false.
C12_EmptyDiffGuard ==
  [][/\ \A c \in BagToSet(calls') :
          heap'[c.diffs][c.index + 1].diff # <<>>
     /\ (lastOp'.op = "generate"
           /\ Diffs[lastOp'.c.index + 1].diff = <<>>) =>
          /\ sent' = <<>>
          /\ ~isProcessing'
          /\ repoData' = repoData
          /\ Diffs' = Diffs
     /\ Holds(toasts', "No diff") =>
          /\ sent' = <<>>
          /\ ~isProcessing']_vars

\* Generate Lesson was clicked on a record whose diff is empty, with a key
\* that passes the credential check
C12_Witness ==
  /\ lastOp.op = "generate"
  /\ startsWith(trim(openaiKey), SkPrefix)
  /\ Diffs[lastOp.c.index + 1].diff = <<>>
  /\ toasts = <<"No diff">>
  /\ sent = <<>>
  /\ ~isProcessing

\* C13: the content of every chat-completion request in flight is the
\* prompt body of its record ("Commit message: ", the message, a blank
\* line, the diff) when that body has at most Limit characters, and the
\* first Limit characters of the body followed by the truncation marker
\* when it has more.
C13_TruncationBoundary ==
  \A c \in BagToSet(calls) :
    LET diff == heap[c.diffs][c.index + 1]
        body == CommitMessagePrefix \o diff.message \o <<"\n", "\n">>
                  \o diff.diff
    IN /\ Len(body) <= Limit => c.content = body
       /\ Len(body) > Limit =>
            /\ c.content = SubSeq(body, 1, Limit) \o TruncationMarker
            /\ Len(c.content) = Limit + Len(TruncationMarker)

\* a request is in flight for a record whose body has Limit + 1
\* characters; what is sent ends with the marker
C13_Witness ==
  \E c \in BagToSet(calls) :
    /\ Len(Body(heap[c.diffs][c.index + 1])) = Limit + 1
    /\ Len(c.content) = Limit + Len(TruncationMarker)
    /\ SubSeq(c.content, Limit + 1, Len(c.content)) = TruncationMarker

(***************************************************************************)
(* Properties of the walkthrough.                                          *)
(***************************************************************************)
\* the number of times generateLesson was called in the last step, when it
\* was a step of the user: every call of generateLesson either raises one
\* toast or issues one request, and nothing else raises a toast then
Invocations == Len(sent) + Len(toasts)

\* C14: startLessons on a non-empty collection sets currentIndex to 0; when
\* record 0 has no explanation, generateLesson is called exactly once in
\* that step, for index 0; when record 0 has one, it is not called.
C14_StartTriggersOnce ==
  [][(lastOp'.op = "start" /\ Len(Diffs) > 0) =>
        /\ currentIndex' = 0
        /\ IF Diffs[1].explanation = Undefined
             THEN Invocations' = 1 /\ (sent' # <<>> => sent' = <<0>>)
             ELSE Invocations' = 0]_vars

\* C15: the view changes from the list to the walkthrough only in a step
\* of startLessons on a non-empty collection, and then currentIndex
\* becomes 0; startLessons on an empty collection changes neither the
\* view, nor currentIndex, nor the collection.  (With no collection the
\* button is not rendered.)
C15_StartOnlyIfNonEmpty ==
  [][/\ (~showLessons /\ showLessons') =>
          /\ lastOp'.op = "start"
          /\ repoData # Null /\ Len(Diffs) > 0
     /\ lastOp'.op = "start" =>
          /\ repoData # Null
          /\ repoData' = repoData /\ Diffs' = Diffs
          /\ IF Len(Diffs) > 0
               THEN showLessons' /\ currentIndex' = 0
               ELSE /\ showLessons' = showLessons
                    /\ currentIndex' = currentIndex]_vars

\* the walkthrough was entered again, after a lesson had been generated
\* for record 0, on a collection of two records
C15_Witness ==
  /\ lastOp.op = "start"
  /\ showLessons /\ currentIndex = 0
  /\ Len(Diffs) = 2
  /\ Diffs[1].explanation # Undefined

\* C16: a step of Next sets currentIndex to min(currentIndex + 1, length - 1)
\* and a step of Prev to max(currentIndex - 1, 0), both in the walkthrough
\* and both leaving the view and the collection as they were; at the last
\* index Next, and at index 0 Prev, cannot be used, so that no step but
\* start, next and prev changes currentIndex.
C16_NextPrevClamped ==
  [][/\ lastOp'.op = "next" =>
          /\ showLessons /\ showLessons'
          /\ currentIndex' = Min(currentIndex + 1, Len(Diffs) - 1)
          /\ repoData' = repoData /\ Diffs' = Diffs
     /\ lastOp'.op = "prev" =>
          /\ showLessons /\ showLessons'
          /\ currentIndex' = Max(currentIndex - 1, 0)
          /\ repoData' = repoData /\ Diffs' = Diffs
     /\ (showLessons /\ repoData # Null /\ currentIndex >= Len(Diffs) - 1) =>
          lastOp'.op # "next"
     /\ (showLessons /\ currentIndex = 0) => lastOp'.op # "prev"
     /\ currentIndex' # currentIndex =>
          lastOp'.op \in {"start", "next", "prev"}]_vars

\* Prev was clicked at index 1 of a collection of two records, which
\* Next had reached
C16_Witness ==
  /\ lastOp.op = "prev"
  /\ showLessons
  /\ currentIndex = 0
  /\ Len(Diffs) = 2

\* C17: a step of Exit changes the view from the walkthrough to the list
\* and leaves currentIndex, the collection, the requests in flight and
\* isProcessing as they were; it issues no request.
C17_ExitFrame ==
  [][lastOp'.op = "exit" =>
        /\ showLessons /\ ~showLessons'
        /\ currentIndex' = currentIndex
        /\ repoData' = repoData /\ Diffs' = Diffs
        /\ calls' = calls
        /\ isProcessing' = isProcessing
        /\ sent' = <<>>]_vars

\* Exit was clicked while a request was in flight
C17_Witness ==
  /\ lastOp.op = "exit"
  /\ ~showLessons
  /\ BagCardinality(calls) = 1
  /\ isProcessing

(***************************************************************************)
(* Properties of the completion of generateLesson.                         *)
(***************************************************************************)
\* C18: when a generation call for index i succeeds with the text r on a
\* collection whose record i already has an explanation, the explanation
\* of record i becomes r and nothing else of the collection changes.
C18_RegenerateOverwrites ==
  [][(/\ lastOp'.op = "genOk"
      /\ repoData # Null
      /\ lastOp'.c.index < Len(Diffs)
      /\ Diffs[lastOp'.c.index + 1].explanation # Undefined) =>
        /\ repoData' # Null
        /\ Len(Diffs') = Len(Diffs)
        /\ \A j \in 1..Len(Diffs) :
             Diffs'[j] = IF j = lastOp'.c.index + 1
                           THEN [Diffs[j] EXCEPT !.explanation = lastOp'.why]
                           ELSE Diffs[j]]_vars

\* C19: Exit leaves every request in flight as it is; the response of a
\* request in flight can arrive whatever the view and currentIndex are;
\* and when a successful response arrives for a request for index i, the
\* explanation of record i of the collection is its text.
C19_LateResponseWritten ==
  /\ [](\A c \in BagToSet(calls) :
          Mounted => ENABLED (\E r \in Responses : GenOk(c, r)))
  /\ [][/\ lastOp'.op = "exit" => calls' = calls
        /\ lastOp'.op = "genOk" =>
             /\ repoData' # Null
             /\ lastOp'.c.index < Len(Diffs')
             /\ Diffs'[lastOp'.c.index + 1].explanation = lastOp'.why]_vars

\* a response arrived in the list view and its text is the explanation of
\* the record the request was made for
C19_Witness ==
  /\ lastOp.op = "genOk"
  /\ ~showLessons
  /\ Diffs[lastOp.c.index + 1].explanation = lastOp.why
  /\ lastOp.why \in Responses

(***************************************************************************)
(* Properties of the auto-trigger.                                         *)
(***************************************************************************)
\* the walkthrough shows a record that has no explanation
Unexplained ==
  /\ showLessons
  /\ repoData # Null
  /\ currentIndex < Len(Diffs)
  /\ Diffs[currentIndex + 1].explanation = Undefined

\* the key passes the credential check and the record shown has a diff
Explainable ==
  /\ startsWith(trim(openaiKey), SkPrefix)
  /\ Diffs[currentIndex + 1].diff # <<>>

\* the last step ended an operation: it set isProcessing to false
EndsOperation ==
  \/ lastOp.op \in {"genOk", "genFail", "pageFail"}
  \/ lastOp.f.phase = "details"

\* C20 as stated: every step after which the walkthrough shows a record
\* with no explanation, and the effect runs with isProcessing false (the
\* step is not a click on Process, and isProcessing was false before it or
\* is set to false by it), issues a chat-completion request for
\* currentIndex.
C20_AutoTrigger ==
  [][(/\ Unexplained'
      /\ lastOp'.op # "process"
      /\ (~isProcessing \/ EndsOperation')) =>
        sent' = << currentIndex' >>]_vars

\* C20 amended: every such step issues a chat-completion request for
\* currentIndex when the key passes the credential check and the record
\* shown has a diff, and no request when not; so the walkthrough never
\* rests on a record that could be explained with isProcessing false.
C20_AutoTriggerGuarded ==
  /\ [](Unexplained /\ Explainable => isProcessing)
  /\ [][(/\ Unexplained'
        /\ lastOp'.op # "process"
        /\ (~isProcessing \/ EndsOperation')) =>
          IF Explainable'
            THEN sent' = << currentIndex' >>
            ELSE sent' = <<>> /\ ~isProcessing']_vars

\* an ingestion ended while the walkthrough was shown and no request was
\* in flight, and the effect issued a request for the record shown
C20_Witness ==
  /\ lastOp.op \in {"pageOk", "detailOk", "detailFail"}
  /\ lastOp.f.phase = "details"
  /\ showLessons
  /\ sent = << currentIndex >>
  /\ BagCardinality(calls) = 1
  /\ isProcessing

\* C21: a step that ends in the list view calls generateLesson only when
\* it is a click on an item's Generate Lesson button, and then only for
\* that item: no other step that ends in the list view (Exit, the end of
\* an ingestion, the arrival of a response, a change of the key) issues a
\* request or has a call refused.
C21_BrowsingOnlyUserTriggered ==
  [][~showLessons' =>
        IF lastOp'.op = "generate"
          THEN sent' \in { <<>>, << lastOp'.c.index >> }
          ELSE /\ sent' = <<>>
               /\ lastOp'.op \in UserOps => toasts' = <<>>]_vars

\* an ingestion ended in the list view, after the walkthrough had been
\* left, with a key that passes the check and a first record that has a
\* diff and no explanation: no request was issued
C21_Witness ==
  /\ lastOp.f.phase = "details"
  /\ ~showLessons
  /\ currentIndex = 1
  /\ startsWith(trim(openaiKey), SkPrefix)
  /\ Len(Diffs) > 0
  /\ Diffs[1].explanation = Undefined /\ Diffs[1].diff # <<>>
  /\ sent = <<>>
  /\ calls = EmptyBag
  /\ ~isProcessing

(***************************************************************************)
(* Progress.                                                               *)
(***************************************************************************)
\* the last step ended a run of fetchRepoData
EndsFetch == lastOp.op = "pageFail" \/ lastOp.f.phase = "details"

\* the last step ended a call of generateLesson
EndsCall == lastOp.op \in {"genOk", "genFail"}

\* C22: when every request is answered, a run of fetchRepoData in flight
\* leads to a step that ends a run and leaves isProcessing false with the
\* component on screen, and so does a chat-completion request in flight.
C22_EventuallyRetryable ==
  /\ (fetches # EmptyBag) ~> (EndsFetch /\ ~isProcessing /\ Mounted)
  /\ (calls # EmptyBag) ~> (EndsCall /\ ~isProcessing /\ Mounted)

(***************************************************************************)
(* Properties of extractRepoInfo.                                          *)
(***************************************************************************)
\* the text typed has an owner segment and a name segment, both non-empty
TwoSegments(in) ==
  Len(in.path) >= 2 /\ in.path[1] # <<>> /\ in.path[2] # <<>>

\* the runs the last step started
Started == IF lastOp.op = "process" THEN BagToSet(fetches) ELSE {}

\* C23: a click on Process that is refused for its URL issues no request,
\* starts no run and leaves isProcessing and the collection as they were;
\* and a click on
\* Process starts a run only for a text that has an owner segment and a
\* name segment, both non-empty.
C23_InvalidUrlRefused ==
  [][/\ lastOp'.op = "invalidUrl" =>
          /\ fetches' = fetches /\ calls' = calls /\ sent' = <<>>
          /\ isProcessing' = isProcessing
          /\ repoData' = repoData /\ Diffs' = Diffs
          /\ toasts' \in { <<"Invalid URL">>, <<"Invalid GitHub URL">> }
     /\ \A f \in Started' : TwoSegments(f.repo.input)]_vars

\* Process was clicked on a URL that has an owner and no name, while a
\* collection was held: the click was refused
C23_Witness ==
  /\ lastOp.op = "invalidUrl"
  /\ lastOp.f.repo.input.scheme # <<>>
  /\ lastOp.f.repo.input.host # <<>>
  /\ lastOp.f.repo.input.path = << <<"o">> >>
  /\ toasts = <<"Invalid GitHub URL">>
  /\ repoData # Null /\ Len(Diffs) = 1
  /\ fetches = EmptyBag /\ ~isProcessing

\* a segment without its trailing ".git", when it has one
StripGitSuffix(seg) ==
  IF Len(seg) >= Len(DotGit)
       /\ SubSeq(seg, Len(seg) - Len(DotGit) + 1, Len(seg)) = DotGit
    THEN SubSeq(seg, 1, Len(seg) - Len(DotGit))
    ELSE seg

\* the strict form: scheme, host, owner segment and name segment
Strict(in) == in.scheme # <<>> /\ in.host # <<>> /\ TwoSegments(in)

\* the loose form: host, owner segment and name segment, no scheme
Loose(in) == in.scheme = <<>> /\ in.host # <<>> /\ TwoSegments(in)

\* C24: the run started for a URL with an owner segment and a name segment
\* carries the owner segment as owner and, as repo, the name segment
\* without its trailing ".git"; a ".git" elsewhere in the segment is kept.
C24_TrailingGitStripped ==
  \A f \in BagToSet(fetches) :
    Strict(f.repo.input) =>
      /\ f.repo.owner = f.repo.input.path[1]
      /\ f.repo.repo = StripGitSuffix(f.repo.input.path[2])

\* C30: a click on Process is never refused for a text of the strict form
\* or of the loose form.
C30_BothFormsAccepted ==
  lastOp.op = "invalidUrl" =>
    ~Strict(lastOp.f.repo.input) /\ ~Loose(lastOp.f.repo.input)

(***************************************************************************)
(* Properties of the failures of fetchRepoData.                            *)
(***************************************************************************)
\* C28: the toast raised when a commit-list page request fails is the
\* toast of a page request failing with status 403 exactly when the status
\* is 403, so that the user can tell the rate limit from another failure.
C28_RateLimitDistinct ==
  [][lastOp'.op = "pageFail" =>
       (toasts' = <<ProcessFailedToast(PageError("403"))>>
          <=> lastOp'.why = "403")]_vars

(***************************************************************************)
(* Properties of the diff text of a record.                                *)
(***************************************************************************)
\* the labelled fenced block of a file: a heading with the filename, then
\* the patch between an opening fence marked diff and a closing fence,
\* each on a line of its own
FencedBlock(filename, patch) ==
  <<"#", "#", "#", " ">> \o filename \o <<"\n">>
    \o <<BQ, BQ, BQ, "d", "i", "f", "f">> \o <<"\n">>
    \o patch \o <<"\n">>
    \o <<BQ, BQ, BQ>> \o <<"\n">>

\* the entries of a file list that have a patch that is a non-empty text
WithPatch(files) ==
  SelectSeq(files, LAMBDA file : file.patch \in { <<"p">>, <<"q">> })

\* the blocks of the files of a list, one after the other
RECURSIVE Blocks(_)
Blocks(files) ==
  IF files = <<>> THEN <<>>
  ELSE FencedBlock(files[1].filename, files[1].patch) \o Blocks(Tail(files))

\* the runs in flight and the run that has just ended, whose repositories
\* answer with a detail of Details
DetailRuns ==
  { f \in BagToSet(fetches) \cup {lastOp.f} : "detail" \in DOMAIN f.repo }

\* C25: the diff of every record a run has built is the blocks of the
\* files of the commit detail that have a non-empty patch, in the order of
\* the file list; it is empty when the detail has no file list, an empty
\* one, or one without such a file.
C25_DiffAssembly ==
  \A f \in DetailRuns : \A i \in 1..Len(f.diffs) :
    /\ f.diffs[i].diff = Blocks(WithPatch(f.repo.detail.files))
    /\ (~f.repo.detail.hasFiles \/ WithPatch(f.repo.detail.files) = <<>>)
         => f.diffs[i].diff = <<>>

\* a commit whose files are a without patch and then b with patch q has
\* been stored: its diff is the block of b alone
C25_Witness ==
  /\ lastOp.op = "detailOk"
  /\ lastOp.f.phase = "details"
  /\ "detail" \in DOMAIN lastOp.f.repo
  /\ lastOp.f.repo.detail.files
       = << [filename |-> <<"a">>, patch |-> Undefined],
            [filename |-> <<"b">>, patch |-> <<"q">>] >>
  /\ Len(Diffs) = 1
  /\ Diffs[1].diff = FencedBlock(<<"b">>, <<"q">>)

(***************************************************************************)
(* Properties of the order of the requests to the hosting API.             *)
(***************************************************************************)
\* a run awaits one request: page f.page while it enumerates, the detail
\* of commit number f.requested afterwards.  The pages before f.page have
\* arrived, each full; no detail is requested before the list is whole;
\* the details before f.requested have arrived, in the order of the list
RunInOrder(f) ==
  /\ f.phase = "pages" =>
       /\ f.page >= 1
       /\ f.requested = 0 /\ f.outcomes = <<>>
       /\ f.allCommits = SubSeq(UpstreamList(f.repo), 1, (f.page - 1) * perPage)
  /\ f.phase = "details" =>
       /\ f.allCommits = UpstreamList(f.repo)
       /\ f.requested \in 1..Len(f.allCommits)
       /\ Len(f.outcomes) = f.requested - 1

\* C26: at most one request to the hosting API is in flight, and the run
\* that awaits it has requested the pages in increasing order from 1, one
\* after the arrival of the other, no detail before the last page, and
\* the details in the order of the list.
C26_OneHostingRequest ==
  /\ BagCardinality(fetches) <= 1
  /\ \A f \in BagToSet(fetches) : RunInOrder(f)

\* C27: the arrival of a page ends the enumeration exactly when the page
\* holds fewer than perPage commits; and when the repository holds a
\* positive multiple of perPage commits, the page that ends it is one page
\* beyond the last commit and is empty, and the list then holds all the
\* commits.
C27_EndsAtFirstShortPage ==
  [][lastOp'.op = "pageOk" =>
       \A f \in BagToSet(fetches) :
         LET commitsPage == UpstreamPage(f.repo, perPage, f.page)
             ended == \A g \in BagToSet(fetches') : g.phase # "pages"
         IN /\ ended <=> Len(commitsPage) < perPage
            /\ ~ended =>
                 \A g \in BagToSet(fetches') : g.page = f.page + 1
            /\ (ended /\ f.repo.n > 0 /\ f.repo.n % perPage = 0) =>
                 /\ commitsPage = <<>>
                 /\ f.page = (f.repo.n \div perPage) + 1
                 /\ \A g \in Enumerated' : Len(g.allCommits) = f.repo.n]_vars

\* the empty third page of a repository of two full pages has arrived, and
\* the detail of the first commit is requested
C27_Witness ==
  /\ lastOp.op = "pageOk"
  /\ \E f \in BagToSet(fetches) :
       /\ f.repo.n = 2 * perPage
       /\ f.phase = "details" /\ f.requested = 1
       /\ f.page = 3
       /\ UpstreamPage(f.repo, perPage, f.page) = <<>>
       /\ Len(f.allCommits) = 2 * perPage

(***************************************************************************)
(* Properties of the explanations.                                         *)
(***************************************************************************)
\* the body has no choices[0].message.content field
LacksContent(data) ==
  \/ ~data.hasChoices
  \/ data.choices = <<>>
  \/ ~data.choices[1].hasMessage
  \/ ~data.choices[1].hasContent

\* the explanations of the records of all the collections
Explanations ==
  UNION { { heap[e][i].explanation : i \in 1..Len(heap[e]) } : e \in Epochs }
    \ {Undefined}

\* C29: a 2xx response whose body has no choices[0].message.content ends
\* in the "Analysis failed" toast for a malformed response and leaves
\* every record as it was; and every explanation a record holds is a
\* content the provider has returned.
C29_MalformedSetsNothing ==
  /\ [][\A c \in BagToSet(calls), data \in Bodies :
          (LacksContent(data) /\ GenBody(c, data)) =>
             /\ lastOp'.op = "genFail" /\ lastOp'.why = "malformed"
             /\ Head(toasts') = "Analysis failed"
             /\ repoData' = repoData /\ Diffs' = Diffs
             /\ Explanations' \subseteq Explanations]_vars
  /\ [](Explanations \subseteq Responses)
  /\ [][lastOp'.op = "genOk" =>
          /\ lastOp'.why \in Responses
          /\ Explanations' \subseteq Explanations \cup {lastOp'.why}]_vars

\* a body without content has arrived for the regeneration of a record
\* that holds an explanation the provider returned: the explanation is
\* kept
C29_Witness ==
  /\ lastOp.op = "genFail" /\ lastOp.why = "malformed"
  /\ lastOp.c.index = 0 /\ lastOp.c.diffs = repoData
  /\ Len(Diffs) = 1
  /\ Diffs[1].explanation \in Responses
  /\ calls = EmptyBag /\ ~isProcessing

(***************************************************************************)
(* Properties of isProcessing.                                             *)
(***************************************************************************)
\* some run of fetchRepoData or some chat-completion request is in flight
InFlight == fetches # EmptyBag \/ calls # EmptyBag

\* C31: isProcessing is true exactly when a run of fetchRepoData or a
\* chat-completion request is in flight.
C31_BusyIffInFlight == isProcessing <=> InFlight

\* C32: a step that issues a chat-completion request leaves no run of
\* fetchRepoData in flight, and a click on Process that starts a run
\* leaves no chat-completion request in flight.
C32_NoOverlap ==
  [][/\ sent' # <<>> => fetches' = EmptyBag
     /\ lastOp'.op = "process" => calls' = EmptyBag]_vars

(***************************************************************************)
(* Properties of the index of generateLesson.                              *)
(***************************************************************************)
\* the number of elements of a sequence that equal x
Count(seq, x) == Cardinality({ i \in 1..Len(seq) : seq[i] = x })

\* C33: the index of every chat-completion request in flight is an index
\* of the collection its generateLesson closed over, and no call of
\* generateLesson, from an item's button, from startLessons or from the
\* effect, finds its index outside the collection (which would end in the
\* "Analysis failed" toast without a response having arrived).
C33_IndexOfCallInRange ==
  /\ [](\A c \in BagToSet(calls) :
          0 <= c.index /\ c.index < Len(heap[c.diffs]))
  /\ [][/\ \A i \in 1..Len(sent') :
            0 <= sent'[i] /\ sent'[i] < Len(Diffs')
        /\ Count(toasts', "Analysis failed")
             <= IF lastOp'.op = "genFail" THEN 1 ELSE 0]_vars

\* Next was clicked on the first of two records and the effect has issued
\* the request for the second
C33_Witness ==
  /\ lastOp.op = "next"
  /\ showLessons /\ currentIndex = 1 /\ Len(Diffs) = 2
  /\ sent = <<1>>
  /\ \E c \in BagToSet(calls) : c.index = 1 /\ c.diffs = repoData

(***************************************************************************)
(* Properties of the lesson viewer on a record without diff.               *)
(***************************************************************************)
\* the lesson viewer shows a record whose diff is empty
OnEmptyDiff ==
  /\ Mounted /\ showLessons /\ repoData # Null
  /\ currentIndex < Len(Diffs)
  /\ Diffs[currentIndex + 1].diff = <<>>

\* isProcessing is false, and Exit, Next unless on the last record and
\* Prev unless on the first are enabled
Unstuck ==
  /\ ~isProcessing
  /\ ExitEnabled
  /\ currentIndex + 1 < Len(Diffs) => NextEnabled
  /\ currentIndex > 0 => PrevEnabled

\* C34: a step that leaves the lesson viewer on a record whose diff is
\* empty issues no chat-completion request and raises the "No diff" toast
\* at most twice (once for startLessons, once for the effect); and from
\* there the component reaches a state in which isProcessing is false and
\* Exit, Next and Prev within bounds are enabled, unless the viewer has
\* left the record.
C34_EmptyDiffNotStuck ==
  /\ [][OnEmptyDiff' =>
          /\ sent' = <<>>
          /\ Count(toasts', "No diff") <= 2]_vars
  /\ [](OnEmptyDiff /\ ~InFlight => Unstuck)
  /\ OnEmptyDiff ~> (Unstuck \/ ~OnEmptyDiff)

\* Next has led the viewer to the second record, which has no diff: the
\* effect has raised the toast once, no request is in flight, and Prev and
\* Exit are enabled
C34_Witness ==
  /\ lastOp.op = "next"
  /\ OnEmptyDiff /\ currentIndex = 1
  /\ toasts = <<"No diff">> /\ sent = <<>>
  /\ ~InFlight
  /\ ~isProcessing /\ PrevEnabled /\ ExitEnabled

====
